---- MODULE Spec2Model ----
(***************************************************************************)
(* etl2pcapng (src/src/main.c): the two-pass conversion of ndiscap ETL     *)
(* events into pcapng records.                                             *)
(*                                                                         *)
(* Byte arrays are kept run-length encoded: a sequence of runs             *)
(* [n |-> count, b |-> byte value].  64-bit quantities are kept as four    *)
(* little-endian 16-bit limbs, because the model checker's integers are    *)
(* 32 bits wide; a C `long` (32 bits, signed) is an ordinary integer.      *)
(***************************************************************************)
EXTENDS Integers, Sequences, FiniteSets, TLC

\* ------------------------------------------------------------ bounds
\* The longest ETL file (number of events) of each input family.
MaxIfEvents == 3
MaxFragEvents == 3
MaxMetaEvents == 3
MaxMediaEvents == 2
MaxTimeEvents == 2
MaxErrEvents == 2
MaxSlotEvents == 4

\* ------------------------------------------------------------ program constants
MAX_PACKET_SIZE == 65535
IFACE_HT_SIZE == 100
tidPacketFragment == 1001
tidPacketMetadata == 1002
tidVMSwitchPacketFragment == 1003

\* Keyword bits of the ndiscap manifest.  The 64-bit keyword mask of an
\* event is modelled as the set of the bits that are set in it.
KW_MEDIA_WIRELESS_WAN == "0x200"
KW_MEDIA_NATIVE_802_11 == "0x10000"
KW_PACKET_START == "0x40000000"
KW_PACKET_END == "0x80000000"
KW_SEND == "0x100000000"
KW_RECEIVE == "0x200000000"

PCAPNG_LINKTYPE_ETHERNET == "PCAPNG_LINKTYPE_ETHERNET"
PCAPNG_LINKTYPE_IEEE802_11 == "PCAPNG_LINKTYPE_IEEE802_11"
PCAPNG_LINKTYPE_RAW == "PCAPNG_LINKTYPE_RAW"

\* sizeof(DOT11_EXTSTA_RECV_CONTEXT) under #pragma pack(push,8): 4 + 4 + 4 +
\* 4 + 2 (+2) + 4 + 1 (+3) + 4, then the pointer and the 8-byte-aligned
\* ULONGLONG, 48 bytes on both the 32-bit and the 64-bit build.
SizeofRecvContext == 48

DOT11_PHY_TYPE_NAMES ==
    << "Unknown", "Fhss", "Dsss", "IrBaseband", "802.11a", "802.11b",
       "802.11g", "802.11n", "802.11ac", "802.11ad", "802.11ax" >>

NdisCapId == "2ED6006E-4729-4609-B423-3EE7BCD678EF"

NO_ERROR == "NO_ERROR"

\* ------------------------------------------------------------ byte arrays
Min(a, b) == IF a < b THEN a ELSE b

RECURSIVE RleLen(_)
RleLen(s) == IF s = << >> THEN 0 ELSE Head(s).n + RleLen(Tail(s))

\* The canonical form: no empty run, no two adjacent runs of one byte.
RECURSIVE RleNorm(_)
RleNorm(s) ==
    IF s = << >> THEN << >>
    ELSE IF Head(s).n = 0 THEN RleNorm(Tail(s))
    ELSE LET r == RleNorm(Tail(s)) IN
         IF r # << >> /\ Head(r).b = Head(s).b
         THEN << [n |-> Head(s).n + Head(r).n, b |-> Head(s).b] >> \o Tail(r)
         ELSE << Head(s) >> \o r

\* The first k bytes of s (all of s when it is shorter).
RECURSIVE RleTake(_, _)
RleTake(s, k) ==
    IF s = << >> \/ k <= 0 THEN << >>
    ELSE IF Head(s).n >= k THEN << [n |-> k, b |-> Head(s).b] >>
    ELSE << Head(s) >> \o RleTake(Tail(s), k - Head(s).n)

\* s without its first k bytes.
RECURSIVE RleDrop(_, _)
RleDrop(s, k) ==
    IF s = << >> THEN << >>
    ELSE IF k <= 0 THEN s
    ELSE IF Head(s).n > k THEN << [n |-> Head(s).n - k, b |-> Head(s).b] >> \o Tail(s)
    ELSE RleDrop(Tail(s), k - Head(s).n)

\* The byte at index i (0-based); i < RleLen(s).
RECURSIVE RleAt(_, _)
RleAt(s, i) == IF i < Head(s).n THEN Head(s).b ELSE RleAt(Tail(s), i - Head(s).n)

\* memcpy(buf + off, data, RleLen(data)), off + RleLen(data) <= RleLen(buf).
RleWrite(buf, off, data) ==
    RleNorm(RleTake(buf, off) \o data \o RleDrop(buf, off + RleLen(data)))

RleSet(buf, i, byte) == RleWrite(buf, i, << [n |-> 1, b |-> byte] >>)

\* b & mask for a one-bit mask of the byte b.
BitSet(b, mask) == (b \div mask) % 2 = 1

\* ------------------------------------------------------------ 64-bit arithmetic
\* A 64-bit value is << l0, l1, l2, l3 >>, l0 the least significant 16 bits.
Limb == 256 * 256

U64Zero == << 0, 0, 0, 0 >>

\* x * m + a modulo 2^64, for 0 <= m <= 10 and 0 <= a < 65536.
U64MulAdd(x, m, a) ==
    LET t0 == x[1] * m + a
        t1 == x[2] * m + t0 \div Limb
        t2 == x[3] * m + t1 \div Limb
        t3 == x[4] * m + t2 \div Limb
    IN << t0 % Limb, t1 % Limb, t2 % Limb, t3 % Limb >>

\* The value of a decimal numeral given by its digits.
RECURSIVE U64Dec(_)
U64Dec(digits) ==
    IF digits = << >> THEN U64Zero
    ELSE U64MulAdd(U64Dec(SubSeq(digits, 1, Len(digits) - 1)), 10, digits[Len(digits)])

\* x / d for 0 < d <= 10 (long division from the top limb).
U64Div(x, d) ==
    LET q3 == x[4] \div d
        r3 == x[4] % d
        q2 == (r3 * Limb + x[3]) \div d
        r2 == (r3 * Limb + x[3]) % d
        q1 == (r2 * Limb + x[2]) \div d
        r1 == (r2 * Limb + x[2]) % d
        q0 == (r1 * Limb + x[1]) \div d
    IN << q0, q1, q2, q3 >>

\* x - y modulo 2^64.
U64Sub(x, y) ==
    LET d0 == x[1] - y[1]
        b0 == IF d0 < 0 THEN 1 ELSE 0
        d1 == x[2] - y[2] - b0
        b1 == IF d1 < 0 THEN 1 ELSE 0
        d2 == x[3] - y[3] - b1
        b2 == IF d2 < 0 THEN 1 ELSE 0
        d3 == x[4] - y[4] - b2
    IN << d0 % Limb, d1 % Limb, d2 % Limb, d3 % Limb >>

\* x + y modulo 2^64.
U64Add(x, y) ==
    LET s0 == x[1] + y[1]
        s1 == x[2] + y[2] + s0 \div Limb
        s2 == x[3] + y[3] + s1 \div Limb
        s3 == x[4] + y[4] + s2 \div Limb
    IN << s0 % Limb, s1 % Limb, s2 % Limb, s3 % Limb >>

\* A 32-bit word, given by its two limbs, converted to a C long.
ToLong(lo, hi) == IF hi >= 32768 THEN (hi - Limb) * Limb + lo ELSE hi * Limb + lo

\* The two limbs << lo, hi >> of the 32-bit word a C long holds.
LongLimbs(x) == << x % Limb, (x \div Limb) % Limb >>

\* ------------------------------------------------------------ state
VARIABLES
    etl,                 \* the input file: the sequence of events ProcessTrace replays
    pos,                 \* events of the current pass already delivered
    pc,                  \* where wmain is
    Err,                 \* wmain's Err
    OutFile,             \* the output handle
    diskOk,              \* the output collaborator has not yet reported an error
    out,                 \* the calls made to the output collaborator, in order
    console,             \* what was printed
    Pass2,
    InterfaceHashTable,
    NumInterfaces,
    AuxFragBuf,
    AuxFragBufOffset,
    PacketMetadata,
    AddMetadata,
    NumFramesConverted

vars == << etl, pos, pc, Err, OutFile, diskOk, out, console, Pass2,
           InterfaceHashTable, NumInterfaces, AuxFragBuf, AuxFragBufOffset,
           PacketMetadata, AddMetadata, NumFramesConverted >>

\* What EventCallback leaves alone, whatever the event.
cbFrame == << etl, Err, OutFile, Pass2 >>

NULL == 0
Uninitialized == -1
INVALID_HANDLE_VALUE == "INVALID_HANDLE_VALUE"

ZeroMetadata ==
    [ uReceiveFlags |-> 0, uPhyId |-> 0, uChCenterFrequency |-> 0,
      usNumberOfMPDUsReceived |-> 0, lRSSI |-> 0, ucDataRate |-> 0 ]

Printf(msg) == Append(console, [msg |-> msg])

\* ------------------------------------------------------------ the interface table
Bucket(LowerIfIndex) == LowerIfIndex % IFACE_HT_SIZE

RECURSIVE ChainFind(_, _, _)
ChainFind(chain, LowerIfIndex, k) ==
    IF k > Len(chain) THEN NULL
    ELSE IF chain[k].LowerIfIndex = LowerIfIndex THEN k
    ELSE ChainFind(chain, LowerIfIndex, k + 1)

\* GetInterface looking at the head of the chain only.
GetInterface_HeadOnly(LowerIfIndex) ==
    LET chain == InterfaceHashTable[Bucket(LowerIfIndex)] IN
    IF chain # << >> /\ chain[1].LowerIfIndex = LowerIfIndex THEN 1 ELSE NULL

\* The place in its bucket's chain of the interface, or NULL.
GetInterface(LowerIfIndex) ==
    ChainFind(InterfaceHashTable[Bucket(LowerIfIndex)], LowerIfIndex, 1)

\* *Iface for a non-NULL result of GetInterface(LowerIfIndex).
Deref(LowerIfIndex, Iface) == InterfaceHashTable[Bucket(LowerIfIndex)][Iface]

\* The table after AddInterface's insertion at the head of the chain.
AddInterface(LowerIfIndex, MiniportIfIndex, Type) ==
    [ InterfaceHashTable EXCEPT ![Bucket(LowerIfIndex)] =
        << [ LowerIfIndex |-> LowerIfIndex, MiniportIfIndex |-> MiniportIfIndex,
             PcapNgIfIndex |-> Uninitialized, Type |-> Type ] >> \o @ ]

\* InterfaceCompareFn without its miniport-first rule.
InterfaceCompareFn_Lexicographic(A, B) ==
    IF A.MiniportIfIndex = B.MiniportIfIndex
    THEN IF A.LowerIfIndex < B.LowerIfIndex THEN -1
         ELSE IF B.LowerIfIndex < A.LowerIfIndex THEN 1 ELSE 0
    ELSE IF A.MiniportIfIndex < B.MiniportIfIndex THEN -1 ELSE 1

InterfaceCompareFn(A, B) ==
    LET MA == A.MiniportIfIndex
        MB == B.MiniportIfIndex
        LA == A.LowerIfIndex
        LB == B.LowerIfIndex
    IN IF MA = MB
       THEN IF MA = LA THEN -1
            ELSE IF MB = LB THEN 1
            ELSE IF LA < LB THEN -1
            ELSE IF LB < LA THEN 1
            ELSE 0
       ELSE IF MA < MB THEN -1 ELSE 1

\* InterfaceArray as WriteInterfaces fills it: bucket by bucket, each chain
\* from its head.
RECURSIVE GatherFrom(_)
GatherFrom(i) ==
    IF i >= IFACE_HT_SIZE THEN << >>
    ELSE InterfaceHashTable[i] \o GatherFrom(i + 1)

RECURSIVE SortInsert(_, _)
SortInsert(x, s) ==
    IF s = << >> THEN << x >>
    ELSE IF InterfaceCompareFn(x, Head(s)) < 0 THEN << x >> \o s
    ELSE << Head(s) >> \o SortInsert(x, Tail(s))

\* qsort with InterfaceCompareFn.  No two entries of the table have the same
\* LowerIfIndex, so the comparison is a strict total order on them and every
\* correct sort returns the same array; an insertion sort stands for it.
RECURSIVE qsort(_)
qsort(arr) ==
    IF arr = << >> THEN << >>
    ELSE SortInsert(arr[Len(arr)], qsort(SubSeq(arr, 1, Len(arr) - 1)))

\* The place of x in the array as it was gathered, before the sort.
IndexIn_Gathered(arr, x) == CHOOSE i \in 1..Len(arr) : GatherFrom(0)[i] = x

\* The i (1-based) with InterfaceArray[i] = x.
IndexIn(arr, x) == CHOOSE i \in 1..Len(arr) : arr[i] = x

\* ------------------------------------------------------------ the collaborators
\* TdhGetProperty(ev, ..., name, ...): the event names the properties that
\* cannot be read from it.
ERROR_NOT_FOUND == "ERROR_NOT_FOUND"
TdhGetProperty(ev, name) == IF name \in ev.Unreadable THEN ERROR_NOT_FOUND ELSE NO_ERROR

\* The output collaborator's results, and what a fault of the build's
\* undefined behaviour (a read outside an array) can come to.
ERROR_WRITE_FAULT == "ERROR_WRITE_FAULT"
WriteResults == IF diskOk THEN { NO_ERROR, ERROR_WRITE_FAULT } ELSE { ERROR_WRITE_FAULT }
UBOutcomes == { "AccessViolation", "Garbage00", "GarbageAA" }
GarbageByte(ub) == IF ub = "Garbage00" THEN 0 ELSE 170

\* The bytes the writer reads at FragBuf for a record of Length bytes: the
\* buffer's, and past its end whatever lies there.
ReadFragBuf(FragBuf, Length, ub) ==
    IF Length <= MAX_PACKET_SIZE THEN RleNorm(RleTake(FragBuf, Length))
    ELSE RleNorm(FragBuf \o << [n |-> Length - MAX_PACKET_SIZE, b |-> GarbageByte(ub)] >>)

PcapNgWriteEnhancedPacket(FragBuf, FragLength, InterfaceId, IsSend, TimeStampHigh, TimeStampLow, Comment, ub, err, at) ==
    [ rec |-> "EPB", payload |-> ReadFragBuf(FragBuf, FragLength, ub),
      FragLength |-> FragLength, InterfaceId |-> InterfaceId, IsSend |-> IsSend,
      TimeStampHigh |-> TimeStampHigh, TimeStampLow |-> TimeStampLow,
      Comment |-> Comment, err |-> err, at |-> at ]

PcapNgWriteInterfaceDesc(LinkType, SnapLen, err) ==
    [ rec |-> "IDB", LinkType |-> LinkType, SnapLen |-> SnapLen, err |-> err ]

PcapNgWriteSectionHeader(err) == [ rec |-> "SHB", err |-> err ]

\* ------------------------------------------------------------ WriteInterfaces
\* The i-th interface description is written with result NO_ERROR while
\* i <= nOk, and with a write fault after that.
IfaceDescErr(i, nOk) == IF i <= nOk THEN NO_ERROR ELSE ERROR_WRITE_FAULT

IfaceLine(Interface, i) ==
    [ msg |-> "IF:", ID |-> i, IfIndex |-> Interface.LowerIfIndex,
      medium |-> Interface.Type,
      LWF |-> Interface.LowerIfIndex # Interface.MiniportIfIndex ]

\* The sorted InterfaceArray.
SortedInterfaces == qsort(GatherFrom(0))

\* The loop body's write of the i-th interface description, taken from the
\* array as it was gathered instead of the sorted one.
DescribeInterface_Unsorted(InterfaceArray, i, nOk) ==
    PcapNgWriteInterfaceDesc(GatherFrom(0)[i].Type, MAX_PACKET_SIZE, IfaceDescErr(i, nOk))

\* The loop body's write of the i-th interface description.
DescribeInterface(InterfaceArray, i, nOk) ==
    PcapNgWriteInterfaceDesc(InterfaceArray[i].Type, MAX_PACKET_SIZE, IfaceDescErr(i, nOk))

WriteInterfaces(mallocOk, nOk) ==
    IF ~mallocOk
    THEN /\ console' = Printf("out of memory")
         /\ pc' = "Exited"
         /\ UNCHANGED << etl, pos, Err, OutFile, diskOk, out, Pass2, InterfaceHashTable,
                         NumInterfaces, AuxFragBuf, AuxFragBufOffset, PacketMetadata,
                         AddMetadata, NumFramesConverted >>
    ELSE LET arr == SortedInterfaces IN
         /\ InterfaceHashTable' =
                [ i \in DOMAIN InterfaceHashTable |->
                    [ k \in DOMAIN InterfaceHashTable[i] |->
                        [ InterfaceHashTable[i][k] EXCEPT
                            !.PcapNgIfIndex = IndexIn(arr, InterfaceHashTable[i][k]) - 1 ] ] ]
         /\ out' = out \o [ i \in 1..NumInterfaces |-> DescribeInterface(arr, i, nOk) ]
         /\ console' = console \o [ i \in 1..NumInterfaces |-> IfaceLine(arr[i], i - 1) ]
         /\ diskOk' = (diskOk /\ nOk >= NumInterfaces)
         /\ Pass2' = TRUE
         /\ pos' = 0
         /\ pc' = "ProcessTrace2"
         /\ UNCHANGED << etl, Err, OutFile, NumInterfaces, AuxFragBuf, AuxFragBufOffset,
                         PacketMetadata, AddMetadata, NumFramesConverted >>

\* ------------------------------------------------------------ EventCallback
\* 11644473600000000: the microseconds from 1601-01-01 to 1970-01-01.
EpochOffsetUsec == U64Dec(<< 1, 1, 6, 4, 4, 4, 7, 3, 6, 0, 0, 0, 0, 0, 0, 0, 0 >>)

\* The conversion without the offset of the epochs.
ConvertTimeStamp_NoEpoch(ticks) == U64Div(ticks, 10)

\* TimeStamp.QuadPart of an event with the given ticks (ticks >= 0).
ConvertTimeStamp(ticks) == U64Sub(U64Div(ticks, 10), EpochOffsetUsec)
HighPart(TimeStamp) == ToLong(TimeStamp[3], TimeStamp[4])
LowPart(TimeStamp) == ToLong(TimeStamp[1], TimeStamp[2])

\* The media type with the wireless-WAN keyword looked at first.
MediaType_WanFirst(Keyword) ==
    IF KW_MEDIA_WIRELESS_WAN \in Keyword THEN PCAPNG_LINKTYPE_RAW
    ELSE IF KW_MEDIA_NATIVE_802_11 \in Keyword THEN PCAPNG_LINKTYPE_IEEE802_11
    ELSE PCAPNG_LINKTYPE_ETHERNET

\* The media type of the event's keywords.
MediaType(Keyword) ==
    IF KW_MEDIA_NATIVE_802_11 \in Keyword THEN PCAPNG_LINKTYPE_IEEE802_11
    ELSE IF KW_MEDIA_WIRELESS_WAN \in Keyword THEN PCAPNG_LINKTYPE_RAW
    ELSE PCAPNG_LINKTYPE_ETHERNET

\* An early return that only prints.
Skip(msg) ==
    /\ console' = Printf(msg)
    /\ UNCHANGED << pc, diskOk, out, InterfaceHashTable, NumInterfaces, AuxFragBuf,
                    AuxFragBufOffset, PacketMetadata, AddMetadata, NumFramesConverted >>

\* exit(1) after printing.
Exit(msg) ==
    /\ console' = Printf(msg)
    /\ pc' = "Exited"
    /\ UNCHANGED << diskOk, out, InterfaceHashTable, NumInterfaces, AuxFragBuf,
                    AuxFragBufOffset, PacketMetadata, AddMetadata, NumFramesConverted >>

\* The process is ended by a fault of a read outside an array.
Crash ==
    /\ pc' = "Crashed"
    /\ UNCHANGED << console, diskOk, out, InterfaceHashTable, NumInterfaces, AuxFragBuf,
                    AuxFragBufOffset, PacketMetadata, AddMetadata, NumFramesConverted >>

\* The pass-1 branch, storing the media type of a later event that differs.
Discover_Overwrite(ev, LowerIfIndex, Iface, mallocOk) ==
    LET Type == MediaType(ev.Keyword) IN
    IF Iface = NULL
    THEN IF TdhGetProperty(ev, "MiniportIfIndex") # NO_ERROR
         THEN Skip("TdhGetProperty MiniportIfIndex failed")
         ELSE IF ~mallocOk
         THEN Exit("out of memory")
         ELSE /\ InterfaceHashTable' = AddInterface(LowerIfIndex, ev.MiniportIfIndex, Type)
              /\ NumInterfaces' = NumInterfaces + 1
              /\ UNCHANGED << pc, diskOk, out, console, AuxFragBuf, AuxFragBufOffset,
                              PacketMetadata, AddMetadata, NumFramesConverted >>
    ELSE IF Deref(LowerIfIndex, Iface).Type # Type
    THEN /\ console' = Printf("WARNING: inconsistent media type in packet events!")
         /\ InterfaceHashTable' =
                [ InterfaceHashTable EXCEPT ![Bucket(LowerIfIndex)][Iface].Type = Type ]
         /\ UNCHANGED << pc, diskOk, out, NumInterfaces, AuxFragBuf, AuxFragBufOffset,
                         PacketMetadata, AddMetadata, NumFramesConverted >>
    ELSE UNCHANGED << pc, diskOk, out, console, InterfaceHashTable, NumInterfaces,
                      AuxFragBuf, AuxFragBufOffset, PacketMetadata, AddMetadata,
                      NumFramesConverted >>

\* The pass-1 branch.
Discover(ev, LowerIfIndex, Iface, mallocOk) ==
    LET Type == MediaType(ev.Keyword) IN
    IF Iface = NULL
    THEN IF TdhGetProperty(ev, "MiniportIfIndex") # NO_ERROR
         THEN Skip("TdhGetProperty MiniportIfIndex failed")
         ELSE IF ~mallocOk
         THEN Exit("out of memory")
         ELSE /\ InterfaceHashTable' = AddInterface(LowerIfIndex, ev.MiniportIfIndex, Type)
              /\ NumInterfaces' = NumInterfaces + 1
              /\ UNCHANGED << pc, diskOk, out, console, AuxFragBuf, AuxFragBufOffset,
                              PacketMetadata, AddMetadata, NumFramesConverted >>
    ELSE IF Deref(LowerIfIndex, Iface).Type # Type
    THEN Skip("WARNING: inconsistent media type in packet events!")
    ELSE UNCHANGED << pc, diskOk, out, console, InterfaceHashTable, NumInterfaces,
                      AuxFragBuf, AuxFragBufOffset, PacketMetadata, AddMetadata,
                      NumFramesConverted >>

\* The tidPacketMetadata branch of pass 2, keeping a record that is pending.
SaveMetadata_KeepFirst(ev) ==
    IF TdhGetProperty(ev, "MetadataSize") # NO_ERROR
    THEN Skip("TdhGetProperty MetadataSize failed")
    ELSE IF ev.MetadataSize # SizeofRecvContext
    THEN Skip("Unknown Metadata length")
    ELSE IF TdhGetProperty(ev, "Metadata") # NO_ERROR
    THEN Skip("TdhGetProperty Metadata failed")
    ELSE /\ PacketMetadata' = IF AddMetadata THEN PacketMetadata ELSE ev.Metadata
         /\ AddMetadata' = TRUE
         /\ UNCHANGED << pc, diskOk, out, console, InterfaceHashTable, NumInterfaces,
                         AuxFragBuf, AuxFragBufOffset, NumFramesConverted >>

\* The tidPacketMetadata branch of pass 2.
SaveMetadata(ev) ==
    IF TdhGetProperty(ev, "MetadataSize") # NO_ERROR
    THEN Skip("TdhGetProperty MetadataSize failed")
    ELSE IF ev.MetadataSize # SizeofRecvContext
    THEN Skip("Unknown Metadata length")
    ELSE IF TdhGetProperty(ev, "Metadata") # NO_ERROR
    THEN Skip("TdhGetProperty Metadata failed")
    ELSE /\ PacketMetadata' = ev.Metadata
         /\ AddMetadata' = TRUE
         /\ UNCHANGED << pc, diskOk, out, console, InterfaceHashTable, NumInterfaces,
                         AuxFragBuf, AuxFragBufOffset, NumFramesConverted >>

\* The comment CombineMetadataWithPacket formats: the format and its arguments.
MetadataComment(Metadata, PhyTypeName, ProcessId) ==
    [ fmt |-> "Packet Metadata: ReceiveFlags:0x%x, PhyType:%s, CenterCh:%u, NumMPDUsReceived:%u, RSSI:%d, DataRate:%u, PID=%d",
      args |-> << Metadata.uReceiveFlags, PhyTypeName, Metadata.uChCenterFrequency,
                  Metadata.usNumberOfMPDUsReceived, Metadata.lRSSI, Metadata.ucDataRate,
                  ProcessId >> ]

PidComment(ProcessId) == [ fmt |-> "PID=%d", args |-> << ProcessId >> ]

\* DOT11_PHY_TYPE_NAMES[uPhyId]; past the table's end, what lies there.
PhyTypeName(uPhyId) ==
    IF uPhyId < Len(DOT11_PHY_TYPE_NAMES) THEN DOT11_PHY_TYPE_NAMES[uPhyId + 1]
    ELSE "(not a table entry)"

\* The record CombineMetadataWithPacket has written.
CombineMetadataWithPacket(FragBuf, FragLength, InterfaceId, IsSend, TimeStampHigh, TimeStampLow, Metadata, ProcessId, ub, err, at) ==
    PcapNgWriteEnhancedPacket(
        FragBuf, SizeofRecvContext + FragLength, InterfaceId, IsSend, TimeStampHigh,
        TimeStampLow, MetadataComment(Metadata, PhyTypeName(Metadata.uPhyId), ProcessId),
        ub, err, at)

\* CombineMetadataWithPacket reads outside DOT11_PHY_TYPE_NAMES or outside
\* the fragment buffer.
CombineReadsOutside(FragLength, Metadata) ==
    \/ Metadata.uPhyId >= Len(DOT11_PHY_TYPE_NAMES)
    \/ SizeofRecvContext + FragLength > MAX_PACKET_SIZE

\* AuxFragBuf[1] with the 802.11 Protected bit cleared.
ClearProtected(FragBuf) ==
    IF BitSet(RleAt(FragBuf, 1), 64) THEN RleSet(FragBuf, 1, RleAt(FragBuf, 1) - 64)
    ELSE FragBuf

\* AddMetadata after a packet was written, left as it was.
ResetAddMetadata_Forgotten == AddMetadata

\* AddMetadata after a packet was written.
ResetAddMetadata == FALSE

\* The Protected bit cleared by the registered media type of the interface.
IsNative80211_ByRegistry(ev, Iface) == Iface.Type = PCAPNG_LINKTYPE_IEEE802_11

\* Whether the frame-end branch clears the Protected bit.
IsNative80211(ev, Iface) == KW_MEDIA_NATIVE_802_11 \in ev.Keyword

\* The frame counter after a packet was written, left as it was.
CountFrame_Forgotten == NumFramesConverted

\* The frame counter after a packet was written.
CountFrame == NumFramesConverted + 1

\* The FragLength handed to the writer at the frame's end.
FrameLength(FragLength) == AuxFragBufOffset + FragLength

\* The fragment branch of pass 2, from the FragmentSize property on.
ConvertFragment(ev, Iface, ub, err) ==
    IF TdhGetProperty(ev, "FragmentSize") # NO_ERROR
    THEN Skip("TdhGetProperty FragmentSize failed")
    ELSE LET FragLength == ev.FragmentSize IN
    IF FragLength > MAX_PACKET_SIZE - AuxFragBufOffset
    THEN Skip("Packet too large and skipped")
    ELSE IF TdhGetProperty(ev, "Fragment") # NO_ERROR
    THEN Skip("TdhGetProperty Fragment failed")
    ELSE LET copied == RleWrite(AuxFragBuf, AuxFragBufOffset, RleTake(ev.Fragment, FragLength))
             TimeStamp == ConvertTimeStamp(ev.TimeStamp)
             IsSend == IF KW_SEND \in ev.Keyword THEN 1 ELSE 0
         IN
         IF KW_PACKET_END \in ev.Keyword
         THEN LET FragBuf == IF IsNative80211(ev, Iface) THEN ClearProtected(copied)
                             ELSE copied
              IN
              IF AddMetadata /\ CombineReadsOutside(FrameLength(FragLength), PacketMetadata)
                 /\ ub = "AccessViolation"
              THEN Crash
              ELSE
              /\ out' = Append(out,
                    IF AddMetadata
                    THEN CombineMetadataWithPacket(
                             FragBuf, FrameLength(FragLength), Iface.PcapNgIfIndex, IsSend,
                             HighPart(TimeStamp), LowPart(TimeStamp), PacketMetadata,
                             ev.ProcessId, ub, err, pos + 1)
                    ELSE PcapNgWriteEnhancedPacket(
                             FragBuf, FrameLength(FragLength), Iface.PcapNgIfIndex, IsSend,
                             HighPart(TimeStamp), LowPart(TimeStamp),
                             PidComment(ev.ProcessId), ub, err, pos + 1))
              /\ diskOk' = (err = NO_ERROR)
              /\ AuxFragBuf' = FragBuf
              /\ AddMetadata' = ResetAddMetadata
              /\ PacketMetadata' = ZeroMetadata
              /\ AuxFragBufOffset' = 0
              /\ NumFramesConverted' = CountFrame
              /\ UNCHANGED << pc, console, InterfaceHashTable, NumInterfaces >>
         ELSE /\ AuxFragBuf' = copied
              /\ AuxFragBufOffset' = AuxFragBufOffset + FragLength
              /\ UNCHANGED << pc, diskOk, out, console, InterfaceHashTable, NumInterfaces,
                              PacketMetadata, AddMetadata, NumFramesConverted >>

\* EventCallback without its test of the provider and the event id.
EventCallback_NoFilter(ev, mallocOk, ub, err) ==
    IF TdhGetProperty(ev, "LowerIfIndex") # NO_ERROR
    THEN Skip("TdhGetProperty LowerIfIndex failed")
    ELSE LET LowerIfIndex == ev.LowerIfIndex
             Iface == GetInterface(LowerIfIndex)
         IN
         IF ~Pass2 THEN Discover(ev, LowerIfIndex, Iface, mallocOk)
         ELSE IF Iface = NULL THEN Exit("ERROR: packet with unrecognized IfIndex")
         ELSE IF ev.Id = tidPacketMetadata THEN SaveMetadata(ev)
         ELSE ConvertFragment(ev, Deref(LowerIfIndex, Iface), ub, err)

EventCallback(ev, mallocOk, ub, err) ==
    IF \/ ev.ProviderId # NdisCapId
       \/ ev.Id \notin { tidPacketFragment, tidPacketMetadata, tidVMSwitchPacketFragment }
    THEN UNCHANGED << pc, diskOk, out, console, InterfaceHashTable, NumInterfaces,
                      AuxFragBuf, AuxFragBufOffset, PacketMetadata, AddMetadata,
                      NumFramesConverted >>
    ELSE IF TdhGetProperty(ev, "LowerIfIndex") # NO_ERROR
    THEN Skip("TdhGetProperty LowerIfIndex failed")
    ELSE LET LowerIfIndex == ev.LowerIfIndex
             Iface == GetInterface(LowerIfIndex)
         IN
         IF ~Pass2 THEN Discover(ev, LowerIfIndex, Iface, mallocOk)
         ELSE IF Iface = NULL THEN Exit("ERROR: packet with unrecognized IfIndex")
         ELSE IF ev.Id = tidPacketMetadata THEN SaveMetadata(ev)
         ELSE ConvertFragment(ev, Deref(LowerIfIndex, Iface), ub, err)

\* ------------------------------------------------------------ wmain
ERROR_SHARING_VIOLATION == "ERROR_SHARING_VIOLATION"
ERROR_BAD_FORMAT == "ERROR_BAD_FORMAT"

wmainFrame == << etl, pos, diskOk, out, Pass2, InterfaceHashTable, NumInterfaces,
                 AuxFragBuf, AuxFragBufOffset, PacketMetadata, AddMetadata,
                 NumFramesConverted >>

wmain_CreateFile ==
    /\ pc = "CreateFile"
    /\ \E r \in { NO_ERROR, ERROR_SHARING_VIOLATION } :
          IF r = NO_ERROR
          THEN /\ OutFile' = "open"
               /\ pc' = "WriteSectionHeader"
               /\ UNCHANGED << Err, console >>
          ELSE /\ Err' = r
               /\ console' = Printf("CreateFile failed")
               /\ pc' = "Done"
               /\ UNCHANGED OutFile
    /\ UNCHANGED wmainFrame

wmain_WriteSectionHeader ==
    /\ pc = "WriteSectionHeader"
    /\ \E err \in WriteResults :
          /\ out' = Append(out, PcapNgWriteSectionHeader(err))
          /\ diskOk' = (err = NO_ERROR)
          /\ Err' = err
          /\ pc' = IF err # NO_ERROR THEN "Done" ELSE "OpenTrace"
    /\ UNCHANGED << etl, pos, OutFile, console, Pass2, InterfaceHashTable, NumInterfaces,
                    AuxFragBuf, AuxFragBufOffset, PacketMetadata, AddMetadata,
                    NumFramesConverted >>

wmain_OpenTrace ==
    /\ pc = "OpenTrace"
    /\ \E r \in { NO_ERROR, ERROR_BAD_FORMAT } :
          IF r = NO_ERROR
          THEN /\ pc' = "ProcessTrace1"
               /\ UNCHANGED << Err, console >>
          ELSE /\ Err' = r
               /\ console' = Printf("OpenTrace failed")
               /\ pc' = "Done"
    /\ UNCHANGED OutFile
    /\ UNCHANGED wmainFrame

\* What the environment can answer during one call of EventCallback: malloc
\* is called in pass 1 only, the writer in pass 2 only, and a read outside an
\* array can happen only in CombineMetadataWithPacket.
MallocResults == IF Pass2 THEN { TRUE } ELSE BOOLEAN
PacketWriteResults == IF Pass2 THEN WriteResults ELSE { NO_ERROR }
UBResults == IF AddMetadata THEN UBOutcomes ELSE { "Garbage00" }

\* ProcessTrace hands the next event of the file to EventCallback.
ProcessTrace_Event ==
    /\ pc \in { "ProcessTrace1", "ProcessTrace2" }
    /\ pos < Len(etl)
    /\ pos' = pos + 1
    /\ \E mallocOk \in MallocResults, ub \in UBResults, err \in PacketWriteResults :
          EventCallback(etl[pos + 1], mallocOk, ub, err)
    /\ UNCHANGED cbFrame

\* ProcessTrace returns, NO_ERROR or an error, once it has delivered the
\* events it could read.  (A file that fails after k events behaves as the
\* file of those k events failing at its end, and the families of input
\* files are closed under prefixes.)
ProcessTrace_Return ==
    /\ pc \in { "ProcessTrace1", "ProcessTrace2" }
    /\ pos = Len(etl)
    /\ \E r \in { NO_ERROR, ERROR_BAD_FORMAT } :
          /\ Err' = r
          /\ IF r # NO_ERROR
             THEN /\ console' = Printf("ProcessTrace failed")
                  /\ pc' = "Done"
             ELSE IF pc = "ProcessTrace1"
             THEN /\ pc' = "WriteInterfaces"
                  /\ UNCHANGED console
             ELSE /\ console' = Append(console, [ msg |-> "Converted frames",
                                                  frames |-> NumFramesConverted ])
                  /\ pc' = "Done"
    /\ UNCHANGED OutFile
    /\ UNCHANGED wmainFrame

wmain_WriteInterfaces ==
    /\ pc = "WriteInterfaces"
    /\ \E mallocOk \in BOOLEAN, nOk \in 0..NumInterfaces :
          /\ ~diskOk => nOk = 0
          /\ WriteInterfaces(mallocOk, nOk)

\* Done: the handle is closed and wmain returns Err.
wmain_Done ==
    /\ pc = "Done"
    /\ OutFile' = IF OutFile # INVALID_HANDLE_VALUE THEN "closed" ELSE OutFile
    /\ pc' = "Returned"
    /\ UNCHANGED << Err, console >>
    /\ UNCHANGED wmainFrame

\* A step of wmain's own, between or after the calls of EventCallback.
wmain_Step ==
    \/ wmain_CreateFile
    \/ wmain_WriteSectionHeader
    \/ wmain_OpenTrace
    \/ ProcessTrace_Return
    \/ wmain_WriteInterfaces
    \/ wmain_Done

\* What ProcessTrace_Event does to the position in the file.
ProcessTrace_Deliver ==
    /\ pc \in { "ProcessTrace1", "ProcessTrace2" }
    /\ pos < Len(etl)
    /\ pos' = pos + 1

Next ==
    \/ wmain_CreateFile
    \/ wmain_WriteSectionHeader
    \/ wmain_OpenTrace
    \/ ProcessTrace_Event
    \/ ProcessTrace_Return
    \/ wmain_WriteInterfaces
    \/ wmain_Done

\* ------------------------------------------------------------ the input files
EpochTicks == U64Dec(<< 1, 1, 6, 4, 4, 4, 7, 3, 6, 0, 0, 0, 0, 0, 0, 0, 0, 0 >>)

Bytes(n, b) == << [n |-> n, b |-> b] >>

\* A fragment event of the capture provider.
Fragment(Keyword, LowerIfIndex, MiniportIfIndex, data) ==
    [ ProviderId |-> NdisCapId, Id |-> tidPacketFragment, Keyword |-> Keyword,
      TimeStamp |-> EpochTicks, ProcessId |-> 4,
      LowerIfIndex |-> LowerIfIndex, MiniportIfIndex |-> MiniportIfIndex,
      MetadataSize |-> 0, Metadata |-> ZeroMetadata,
      FragmentSize |-> RleLen(data), Fragment |-> data, Unreadable |-> { } ]

\* A metadata event of the capture provider.
Metadata(LowerIfIndex, MiniportIfIndex, size, record) ==
    [ ProviderId |-> NdisCapId, Id |-> tidPacketMetadata,
      Keyword |-> { KW_MEDIA_NATIVE_802_11, KW_RECEIVE },
      TimeStamp |-> EpochTicks, ProcessId |-> 4,
      LowerIfIndex |-> LowerIfIndex, MiniportIfIndex |-> MiniportIfIndex,
      MetadataSize |-> size, Metadata |-> record,
      FragmentSize |-> 0, Fragment |-> << >>, Unreadable |-> { } ]

Files(alphabet, maxLen) == UNION { [1..n -> alphabet] : n \in 0..maxLen }

InitOn(files) ==
    /\ etl \in files
    /\ pos = 0
    /\ pc = "CreateFile"
    /\ Err = "uninitialized"
    /\ OutFile = INVALID_HANDLE_VALUE
    /\ diskOk = TRUE
    /\ out = << >>
    /\ console = << >>
    /\ Pass2 = FALSE
    /\ InterfaceHashTable = [ i \in 0..(IFACE_HT_SIZE - 1) |-> << >> ]
    /\ NumInterfaces = 0
    /\ AuxFragBuf = Bytes(MAX_PACKET_SIZE, 0)
    /\ AuxFragBufOffset = 0
    /\ PacketMetadata = ZeroMetadata
    /\ AddMetadata = FALSE
    /\ NumFramesConverted = 0

EndOnly == { KW_PACKET_START, KW_PACKET_END, KW_RECEIVE }

\* Interfaces: single-event frames on layered and miniport interfaces, two of
\* them (5 and 105) in one bucket of the table.
IfEvents ==
    { Fragment(EndOnly, p[1], p[2], Bytes(2, 17)) :
        p \in { << 7, 5 >>, << 5, 5 >>, << 3, 3 >>, << 105, 5 >> } }
    \cup { Fragment(EndOnly \cup { KW_MEDIA_NATIVE_802_11 }, 3, 5, Bytes(2, 17)) }

InitIf == InitOn(Files(IfEvents, MaxIfEvents))
SpecIf == InitIf /\ [][Next]_vars

\* Reassembly: fragments of 1, 2, 40000 and 65535 bytes on interface 1, each
\* filled with its own byte, a fragment on interface 2, and a metadata record.
RecvContextA ==
    [ uReceiveFlags |-> 1, uPhyId |-> 7, uChCenterFrequency |-> 2412,
      usNumberOfMPDUsReceived |-> 1, lRSSI |-> -40, ucDataRate |-> 54 ]
RecvContextB ==
    [ uReceiveFlags |-> 2, uPhyId |-> 10, uChCenterFrequency |-> 5180,
      usNumberOfMPDUsReceived |-> 3, lRSSI |-> -67, ucDataRate |-> 108 ]

FragEvents ==
    { Fragment({ KW_PACKET_START, KW_RECEIVE }, 1, 1, Bytes(1, 17)),
      Fragment({ KW_PACKET_END, KW_RECEIVE }, 1, 1, Bytes(2, 34)),
      Fragment({ KW_RECEIVE }, 1, 1, Bytes(40000, 51)),
      Fragment({ KW_PACKET_END, KW_SEND }, 1, 1, Bytes(40000, 68)),
      Fragment(EndOnly, 1, 1, Bytes(MAX_PACKET_SIZE, 85)),
      Fragment({ KW_PACKET_START, KW_RECEIVE }, 2, 2, Bytes(2, 102)),
      Metadata(1, 1, SizeofRecvContext, RecvContextA) }

InitFrag == InitOn(Files(FragEvents, MaxFragEvents))
SpecFrag == InitFrag /\ [][Next]_vars

\* wmain runs on: it takes its next step, and ProcessTrace hands over the next
\* event of the file and returns at the file's end.
FairSpecFrag == SpecFrag /\ WF_vars(wmain_Step) /\ WF_pos(ProcessTrace_Deliver)

\* Metadata: two records, one of the wrong size and one whose uPhyId is past
\* the name table, and single-event frames of two processes on two interfaces.
MetaEvents ==
    { Metadata(1, 1, SizeofRecvContext, RecvContextA),
      Metadata(2, 1, SizeofRecvContext, RecvContextB),
      Metadata(1, 1, SizeofRecvContext - 1, RecvContextB),
      Metadata(1, 1, SizeofRecvContext, [ RecvContextA EXCEPT !.uPhyId = 11 ]),
      Fragment(EndOnly \cup { KW_MEDIA_NATIVE_802_11 }, 1, 1, Bytes(2, 17)),
      [ Fragment(EndOnly \cup { KW_MEDIA_NATIVE_802_11 }, 2, 1, Bytes(3, 34))
          EXCEPT !.ProcessId = 8 ] }

InitMeta == InitOn(Files(MetaEvents, MaxMetaEvents))
SpecMeta == InitMeta /\ [][Next]_vars

\* Media types: frames on interface 1 under each combination of the media
\* keywords, with byte 1 of the frame 0xC0 or 0x80, in one event or in two.
MediaEvents ==
    { Fragment(EndOnly \cup kw, 1, 1, Bytes(1, 8) \o Bytes(1, 192)) :
        kw \in SUBSET { KW_MEDIA_NATIVE_802_11, KW_MEDIA_WIRELESS_WAN } }
    \cup { Fragment(EndOnly \cup { KW_MEDIA_NATIVE_802_11 }, 1, 1, Bytes(1, 8) \o Bytes(1, 128)),
           Fragment({ KW_PACKET_START, KW_MEDIA_NATIVE_802_11 }, 1, 1, Bytes(1, 8)),
           Fragment({ KW_PACKET_END, KW_MEDIA_NATIVE_802_11 }, 1, 1, Bytes(1, 192)),
           Fragment({ KW_PACKET_END }, 1, 1, Bytes(1, 192)) }

InitMedia == InitOn(Files(MediaEvents, MaxMediaEvents))
SpecMedia == InitMedia /\ [][Next]_vars

\* Timestamps: single-event frames at the epoch (1970-01-01), 9 and 10 ticks
\* and one second after it, 2^31 and 2^32 microseconds after it, on
\* 2020-01-01, and at tick 0 (1601-01-01, before the epoch).
TimeStamps ==
    { U64Add(EpochTicks, U64Dec(d)) :
        d \in { << 0 >>, << 9 >>, << 1, 0 >>, << 1, 0, 0, 0, 0, 0, 0, 0 >>,
                << 2, 1, 4, 7, 4, 8, 3, 6, 4, 8, 0 >>,
                << 4, 2, 9, 4, 9, 6, 7, 2, 9, 6, 0 >> } }
    \cup { U64Zero, U64Dec(<< 1, 3, 2, 2, 2, 3, 1, 0, 4, 0, 0, 0, 0, 0, 0, 0, 0, 0 >>) }

TimeEvents == { [ Fragment(EndOnly, 1, 1, Bytes(2, 17)) EXCEPT !.TimeStamp = t ] : t \in TimeStamps }

InitTime == InitOn(Files(TimeEvents, MaxTimeEvents))
SpecTime == InitTime /\ [][Next]_vars

\* Errors: events of another provider and of another id, events one of whose
\* properties cannot be read, a metadata record of the wrong size, a fragment
\* that fills the buffer, and good single-event frames on two interfaces.
ErrEvents ==
    { [ Fragment(EndOnly, 1, 1, Bytes(2, 17)) EXCEPT !.ProviderId = "another provider" ],
      [ Fragment(EndOnly, 1, 1, Bytes(2, 17)) EXCEPT !.Id = 1000 ],
      Fragment(EndOnly, 1, 1, Bytes(2, 17)),
      [ Fragment(EndOnly, 2, 1, Bytes(2, 34)) EXCEPT !.Id = tidVMSwitchPacketFragment ],
      Fragment({ KW_PACKET_START }, 1, 1, Bytes(MAX_PACKET_SIZE, 51)),
      Metadata(1, 1, SizeofRecvContext + 8, RecvContextA) }
    \cup { [ Fragment(EndOnly, 1, 1, Bytes(2, 68)) EXCEPT !.Unreadable = { name } ] :
             name \in { "LowerIfIndex", "MiniportIfIndex", "FragmentSize", "Fragment" } }
    \cup { [ Metadata(1, 1, SizeofRecvContext, RecvContextA) EXCEPT !.Unreadable = { name } ] :
             name \in { "MetadataSize", "Metadata" } }

InitErr == InitOn(Files(ErrEvents, MaxErrEvents))
SpecErr == InitErr /\ [][Next]_vars

\* The metadata slot: two different records and a single-event frame, all on
\* interface 1.
SlotEvents ==
    { Metadata(1, 1, SizeofRecvContext, RecvContextA),
      Metadata(1, 1, SizeofRecvContext, RecvContextB),
      Fragment(EndOnly \cup { KW_MEDIA_NATIVE_802_11 }, 1, 1, Bytes(2, 17)) }

InitSlot == InitOn(Files(SlotEvents, MaxSlotEvents))
SpecSlot == InitSlot /\ [][Next]_vars

\* ------------------------------------------------------------ properties
Range(f) == { f[i] : i \in DOMAIN f }

\* The registered interfaces.
Interfaces == UNION { Range(InterfaceHashTable[i]) : i \in DOMAIN InterfaceHashTable }

\* The positions in out of the records of one kind.
Records(kind) == { i \in 1..Len(out) : out[i].rec = kind }

\* a comes before b in the canonical order of the interfaces.
Precedes(a, b) ==
    \/ a.MiniportIfIndex < b.MiniportIfIndex
    \/ /\ a.MiniportIfIndex = b.MiniportIfIndex
       /\ \/ a.LowerIfIndex = a.MiniportIfIndex
          \/ /\ b.LowerIfIndex # b.MiniportIfIndex
             /\ a.LowerIfIndex < b.LowerIfIndex

\* C2: once WriteInterfaces has run, the interfaces are numbered in ascending
\* MiniportIfIndex; among those of one MiniportIfIndex the miniport itself
\* (LowerIfIndex = MiniportIfIndex) comes first and the others follow in
\* ascending LowerIfIndex.
C2_CanonicalOrder ==
    Pass2 => \A a, b \in Interfaces :
                a # b => /\ a.PcapNgIfIndex # b.PcapNgIfIndex
                         /\ a.PcapNgIfIndex < b.PcapNgIfIndex => Precedes(a, b)

IndexOf(LowerIfIndex) == Deref(LowerIfIndex, GetInterface(LowerIfIndex)).PcapNgIfIndex

\* (7,5), (5,5), (3,3) discovered in that order and numbered 3, 5, 7.
C2_Witness ==
    /\ Pass2
    /\ Len(etl) = 3
    /\ << etl[1].LowerIfIndex, etl[1].MiniportIfIndex >> = << 7, 5 >>
    /\ << etl[2].LowerIfIndex, etl[2].MiniportIfIndex >> = << 5, 5 >>
    /\ << etl[3].LowerIfIndex, etl[3].MiniportIfIndex >> = << 3, 3 >>
    /\ NumInterfaces = 3
    /\ IndexOf(3) = 0 /\ IndexOf(5) = 1 /\ IndexOf(7) = 2

\* C10: the section header is the first record and the only one of its kind,
\* and is written before any event is delivered; nothing else is written
\* until pass 1 has returned; once pass 2 has begun the header is followed by
\* one interface description per registered interface, the i-th being that of
\* the interface numbered i - 1, and every later record is a packet.
C10_RecordOrder ==
    /\ Records("SHB") = IF pc \in { "CreateFile", "WriteSectionHeader" } \/ out = << >>
                        THEN { } ELSE { 1 }
    /\ (pos > 0 \/ Pass2) => Records("SHB") = { 1 }
    /\ ~Pass2 => Records("IDB") = { } /\ Records("EPB") = { }
    /\ Pass2 => /\ Records("IDB") = 2..(NumInterfaces + 1)
                /\ Cardinality(Interfaces) = NumInterfaces
                /\ \A i \in 1..NumInterfaces :
                      \E a \in Interfaces : /\ a.PcapNgIfIndex = i - 1
                                            /\ out[i + 1].LinkType = a.Type
                /\ Records("EPB") = (NumInterfaces + 2)..Len(out)

\* Three interfaces of two media types were described and a packet written.
C10_Witness ==
    /\ pc = "Returned"
    /\ NumInterfaces = 3
    /\ \E i, j \in Records("IDB") : out[i].LinkType # out[j].LinkType
    /\ Records("EPB") # { }

\* ---- what the input file says, read without the program's state
IsRelevant(ev) ==
    /\ ev.ProviderId = NdisCapId
    /\ ev.Id \in { tidPacketFragment, tidPacketMetadata, tidVMSwitchPacketFragment }

\* A fragment event all of whose properties can be read.
IsFragment(ev) ==
    /\ IsRelevant(ev)
    /\ ev.Id # tidPacketMetadata
    /\ ev.Unreadable = { }

\* A metadata event that pass 2 accepts.
IsAcceptedMetadata(ev) ==
    /\ IsRelevant(ev)
    /\ ev.Id = tidPacketMetadata
    /\ ev.Unreadable = { }
    /\ ev.MetadataSize = SizeofRecvContext

\* The events of pass 2 that have been delivered.
Delivered == IF Pass2 THEN 1..pos ELSE { }

\* The packets written while event j of pass 2 was handled.
PacketsAt(j) == { k \in Records("EPB") : out[k].at = j }

\* The fragment buffer was empty when event i of pass 2 arrived: nothing but
\* metadata events has arrived since the last packet, or since the pass began.
RECURSIVE EmptyBefore(_)
EmptyBefore(i) ==
    \/ i = 1
    \/ PacketsAt(i - 1) # { }
    \/ etl[i - 1].Id = tidPacketMetadata /\ EmptyBefore(i - 1)

RECURSIVE Concat(_, _)
Concat(i, j) == IF i > j THEN << >> ELSE etl[i].Fragment \o Concat(i + 1, j)

RECURSIVE SumLen(_, _)
SumLen(i, j) == IF i > j THEN 0 ELSE etl[i].FragmentSize + SumLen(i + 1, j)

\* Events i..j are the fragments of one frame: on one interface, only the
\* last with the frame-end keyword, arriving at an empty buffer.
IsFrame(i, j) ==
    /\ \A k \in i..j : /\ IsFragment(etl[k])
                       /\ etl[k].LowerIfIndex = etl[i].LowerIfIndex
                       /\ (KW_PACKET_END \in etl[k].Keyword) = (k = j)
    /\ EmptyBefore(i)
    /\ SumLen(i, j) <= MAX_PACKET_SIZE

\* C1: for the fragments b1..bn of one frame (of at most 65535 bytes in all)
\* that pass 2 has handled, no packet was written at b1..b(n-1) and exactly
\* one at bn, its payload the concatenation b1..bn and its length the sum of
\* the fragments' lengths; and the buffer is empty right after bn.
C1_Reassembly ==
    \A j \in Delivered : \A i \in 1..j :
        IsFrame(i, j) =>
            /\ \A k \in i..(j - 1) : PacketsAt(k) = { }
            /\ Cardinality(PacketsAt(j)) = 1
            /\ \A p \in PacketsAt(j) :
                  /\ out[p].FragLength = SumLen(i, j)
                  /\ out[p].payload = RleNorm(Concat(i, j))
            /\ pos = j => AuxFragBufOffset = 0

\* The step printed that a fragment did not fit.
Overflowed ==
    /\ Len(console') = Len(console) + 1
    /\ console'[Len(console')].msg = "Packet too large and skipped"

\* C3: the step that finds a fragment too large for the buffer writes no
\* packet and leaves the buffer empty.
C3_OverflowDropsFrame == [][Overflowed => (out' = out /\ AuxFragBufOffset' = 0)]_vars

\* The metadata event whose record is pending when event j of pass 2 arrives:
\* the last accepted one since the last packet; 0 when there is none.
RECURSIVE PendingBefore(_)
PendingBefore(j) ==
    IF j = 1 THEN 0
    ELSE IF PacketsAt(j - 1) # { } THEN 0
    ELSE IF IsAcceptedMetadata(etl[j - 1]) THEN j - 1
    ELSE PendingBefore(j - 1)

\* The comment was formatted from the metadata record and the process id.
IsMetadataComment(Comment, record, ProcessId) ==
    /\ Comment.fmt # "PID=%d"
    /\ Len(Comment.args) = 7
    /\ Comment.args[1] = record.uReceiveFlags
    /\ Comment.args[3] = record.uChCenterFrequency
    /\ Comment.args[4] = record.usNumberOfMPDUsReceived
    /\ Comment.args[5] = record.lRSSI
    /\ Comment.args[6] = record.ucDataRate
    /\ Comment.args[7] = ProcessId

\* C4: a packet written while a metadata record is pending carries the comment
\* formatted from that record, and a packet written while none is pending
\* carries the comment of the process id alone; the slot is full exactly while
\* a record is pending, so the packet that takes a record empties it, and no
\* record is the source of two packets' comments.
C4_MetadataConsumedOnce ==
    /\ \A k \in Records("EPB") :
          LET j == out[k].at
              m == PendingBefore(j)
          IN IF m = 0
             THEN out[k].Comment = [ fmt |-> "PID=%d", args |-> << etl[j].ProcessId >> ]
             ELSE IsMetadataComment(out[k].Comment, etl[m].Metadata, etl[j].ProcessId)
    /\ pc = "ProcessTrace2" =>
          /\ AddMetadata = (PendingBefore(pos + 1) # 0)
          /\ AddMetadata => PacketMetadata = etl[PendingBefore(pos + 1)].Metadata
    /\ \A k1, k2 \in Records("EPB") :
          (k1 # k2 /\ PendingBefore(out[k1].at) # 0)
              => PendingBefore(out[k1].at) # PendingBefore(out[k2].at)

\* A metadata record on interface 1 was taken by a packet of interface 2, and
\* the packet after it carries the process id alone.
C4_Witness ==
    /\ pc = "ProcessTrace2" /\ pos = 3 /\ Len(etl) = 3
    /\ IsAcceptedMetadata(etl[1]) /\ etl[1].LowerIfIndex = 1
    /\ etl[2].LowerIfIndex = 2
    /\ \E k1, k2 \in Records("EPB") :
          /\ out[k1].at = 2 /\ out[k2].at = 3
          /\ IsMetadataComment(out[k1].Comment, etl[1].Metadata, etl[2].ProcessId)
          /\ out[k2].Comment.fmt = "PID=%d"
    /\ ~AddMetadata

\* The step wrote a packet.
Emits == Len(out') = Len(out) + 1 /\ out'[Len(out')].rec = "EPB"

\* The registered media type of the interface of event ev.
RegisteredType(ev) == Deref(ev.LowerIfIndex, GetInterface(ev.LowerIfIndex)).Type

\* The frame of the packet this step wrote is the assembled frame (the buffer
\* with the event's fragment put at the fill offset), with bit 0x40 of its
\* byte 1 cleared if `clear` and left as it is otherwise.
EmittedFrame(clear) ==
    LET ev == etl[pos']
        n == AuxFragBufOffset + ev.FragmentSize
        frame == RleTake(RleTake(AuxFragBuf, AuxFragBufOffset) \o ev.Fragment, n)
        byte1 == RleAt(frame, 1)
        expected == IF clear /\ n >= 2 /\ BitSet(byte1, 64)
                    THEN RleTake(frame, 1) \o Bytes(1, byte1 - 64) \o RleDrop(frame, 2)
                    ELSE frame
    IN RleNorm(RleTake(out'[Len(out')].payload, n)) = RleNorm(expected)

\* C5, as claimed: at every emission the bit is cleared if and only if the
\* registry holds the media type Wifi for the frame's interface.
C5_ClearedByRegisteredType ==
    [][Emits => EmittedFrame(RegisteredType(etl[pos']) = PCAPNG_LINKTYPE_IEEE802_11)]_vars

\* C5, amended: at every emission the bit is cleared if and only if the
\* frame-end event's own keyword has the native-802.11 flag.
C5_ClearedByEventKeyword ==
    [][Emits => EmittedFrame(KW_MEDIA_NATIVE_802_11 \in etl[pos'].Keyword)]_vars

\* An interface registered as Ethernet whose frame-end event carries the
\* native-802.11 keyword: byte 1 went from 0xC0 to 0x80.
C5_Witness ==
    \E k \in Records("EPB") :
        LET ev == etl[out[k].at] IN
        /\ RegisteredType(ev) = PCAPNG_LINKTYPE_ETHERNET
        /\ KW_MEDIA_NATIVE_802_11 \in ev.Keyword
        /\ ev.FragmentSize = 2
        /\ RleAt(ev.Fragment, 1) = 192
        /\ RleAt(out[k].payload, 1) = 128

\* usec is the 64-bit number of microseconds since 1970 of the tick count:
\* usec + 11644473600000000 = q (modulo 2^64) with 10 q <= ticks < 10 q + 10.
IsUsecOf(usec, ticks) ==
    LET q == U64Add(usec, U64Dec(<< 1, 1, 6, 4, 4, 4, 7, 3, 6, 0, 0, 0, 0, 0, 0, 0, 0 >>))
        r == U64Sub(ticks, U64MulAdd(q, 10, 0))
    IN r[1] \in 0..9 /\ r[2] = 0 /\ r[3] = 0 /\ r[4] = 0

\* The 32-bit word of a long, as a 64-bit value.
U64OfLong(x) == LongLimbs(x) \o << 0, 0 >>

Times1000(x) == U64MulAdd(U64MulAdd(U64MulAdd(x, 10, 0), 10, 0), 10, 0)

\* C6, as claimed: the two components of every packet are the whole seconds
\* and the microseconds remainder: seconds * 1000000 + micros is the
\* microseconds since 1970, with 0 <= micros < 1000000.
C6_SecondsAndMicros ==
    \A k \in Records("EPB") :
        /\ 0 <= out[k].TimeStampLow /\ out[k].TimeStampLow < 1000000
        /\ IsUsecOf(U64Add(Times1000(Times1000(U64OfLong(out[k].TimeStampHigh))),
                           U64OfLong(out[k].TimeStampLow)),
                    etl[out[k].at].TimeStamp)

\* C6, amended: the two components of every packet are the upper and the
\* lower 32-bit word of the 64-bit microseconds since 1970; the epoch itself
\* gives (0, 0).
C6_HighAndLowWords ==
    \A k \in Records("EPB") :
        /\ IsUsecOf(LongLimbs(out[k].TimeStampLow) \o LongLimbs(out[k].TimeStampHigh),
                    etl[out[k].at].TimeStamp)
        /\ etl[out[k].at].TimeStamp = EpochTicks
              => out[k].TimeStampHigh = 0 /\ out[k].TimeStampLow = 0

\* 2^32 microseconds after the epoch is written as (1, 0), and one second
\* after the epoch as (0, 1000000).
C6_Witness ==
    /\ \E k \in Records("EPB") :
          /\ etl[out[k].at].TimeStamp
                = U64Add(EpochTicks, U64Dec(<< 4, 2, 9, 4, 9, 6, 7, 2, 9, 6, 0 >>))
          /\ out[k].TimeStampHigh = 1 /\ out[k].TimeStampLow = 0
    /\ \E k \in Records("EPB") :
          /\ etl[out[k].at].TimeStamp = U64Add(EpochTicks, U64Dec(<< 1, 0, 0, 0, 0, 0, 0, 0 >>))
          /\ out[k].TimeStampHigh = 0 /\ out[k].TimeStampLow = 1000000

\* The last line printed.
LastPrinted == IF console = << >> THEN "" ELSE console[Len(console)].msg

UnrecognizedIfIndex == pc = "Exited" /\ LastPrinted = "ERROR: packet with unrecognized IfIndex"

\* C7: pass 2 replays the file pass 1 read, so every event of pass 2 finds
\* its LowerIfIndex in the table: the run never exits on an unrecognized
\* IfIndex.
C7_EveryInterfaceKnown == ~UnrecognizedIfIndex

\* The lines printed for the recoverable errors.
RecoverableMessages ==
    { "TdhGetProperty LowerIfIndex failed", "TdhGetProperty MiniportIfIndex failed",
      "TdhGetProperty MetadataSize failed", "TdhGetProperty Metadata failed",
      "TdhGetProperty FragmentSize failed", "TdhGetProperty Fragment failed",
      "Unknown Metadata length", "Packet too large and skipped" }

\* C8: a run in which recoverable errors were met does not end in a fatal
\* abort (other than for want of memory): their events are only skipped.
C8_RecoverableNeverFatal ==
    (\E i \in 1..Len(console) : console[i].msg \in RecoverableMessages)
        => (pc = "Exited" => LastPrinted = "out of memory")

\* C9: a record whose write failed is the last record written, and the run
\* that met it returns the error.
C9_WriteErrorAborts ==
    \A i \in 1..Len(out) :
        out[i].err # NO_ERROR => /\ i = Len(out)
                                 /\ pc \notin { "ProcessTrace1", "WriteInterfaces", "ProcessTrace2" }
                                 /\ pc = "Returned" => Err # NO_ERROR

\* The media type a first sighting gives: Wifi under the native-802.11
\* keyword, with or without the wireless-WAN keyword; RawIp under the
\* wireless-WAN keyword alone; Ethernet under neither.
FirstSightingType(Keyword) ==
    CASE KW_MEDIA_NATIVE_802_11 \in Keyword -> PCAPNG_LINKTYPE_IEEE802_11
      [] KW_MEDIA_NATIVE_802_11 \notin Keyword /\ KW_MEDIA_WIRELESS_WAN \in Keyword
            -> PCAPNG_LINKTYPE_RAW
      [] OTHER -> PCAPNG_LINKTYPE_ETHERNET

\* The step hands pass 1 an event of a registered interface whose keywords
\* give another media type than the registered one.
Resighted ==
    /\ pc = "ProcessTrace1" /\ pos' = pos + 1
    /\ IsRelevant(etl[pos'])
    /\ "LowerIfIndex" \notin etl[pos'].Unreadable
    /\ GetInterface(etl[pos'].LowerIfIndex) # NULL
    /\ RegisteredType(etl[pos']) # FirstSightingType(etl[pos'].Keyword)

\* C11: every step, of either pass, leaves each registered interface with
\* its media type and its MiniportIfIndex; a pass-1 event of a registered
\* interface with another media type leaves the table as it is and prints the
\* warning.
C11_MediaTypeSetOnce ==
    [][ /\ \A a \in Interfaces : \E b \in Interfaces' :
              /\ b.LowerIfIndex = a.LowerIfIndex
              /\ b.MiniportIfIndex = a.MiniportIfIndex
              /\ b.Type = a.Type
        /\ Resighted =>
              /\ InterfaceHashTable' = InterfaceHashTable
              /\ console' = Append(console,
                    [ msg |-> "WARNING: inconsistent media type in packet events!" ]) ]_vars

\* Interface 1 was registered as Ethernet, was seen again under the
\* native-802.11 keyword, and is still Ethernet when the run has returned.
C11_Witness ==
    /\ pc = "Returned" /\ Pass2 /\ Len(etl) = 2
    /\ FirstSightingType(etl[1].Keyword) = PCAPNG_LINKTYPE_ETHERNET
    /\ KW_MEDIA_NATIVE_802_11 \in etl[2].Keyword
    /\ \E i \in 1..Len(console) :
          console[i].msg = "WARNING: inconsistent media type in packet events!"
    /\ \A a \in Interfaces : a.Type = PCAPNG_LINKTYPE_ETHERNET
    /\ Cardinality(Records("EPB")) = 2

\* The step registers an interface.
Registers == NumInterfaces' = NumInterfaces + 1

\* C12: the interface a step registers is that of the event, with the media
\* type the event's keywords give at a first sighting.
C12_TypeFromKeyword ==
    [][ Registers =>
          \E a \in Interfaces' :
              /\ Interfaces' = Interfaces \cup { a }
              /\ a \notin Interfaces
              /\ a.LowerIfIndex = etl[pos'].LowerIfIndex
              /\ a.MiniportIfIndex = etl[pos'].MiniportIfIndex
              /\ a.Type = FirstSightingType(etl[pos'].Keyword) ]_vars

\* An interface first seen under both media keywords is registered as Wifi.
C12_Witness ==
    /\ NumInterfaces = 1
    /\ { KW_MEDIA_NATIVE_802_11, KW_MEDIA_WIRELESS_WAN } \subseteq etl[1].Keyword
    /\ \A a \in Interfaces : a.Type = PCAPNG_LINKTYPE_IEEE802_11

\* C13: a packet written while a metadata record is pending has the length
\* and the bytes of the assembled frame, the fill offset plus the last
\* fragment's length, as a packet written while none is pending has.
C13_MetadataLeavesPayload ==
    [][ (Emits /\ AddMetadata) =>
          LET n == AuxFragBufOffset + etl[pos'].FragmentSize IN
          /\ out'[Len(out')].FragLength = n
          /\ out'[Len(out')].payload = RleNorm(RleTake(AuxFragBuf', n)) ]_vars

IfaceLines == { i \in 1..Len(console) : console[i].msg = "IF:" }

\* C15: once WriteInterfaces has run the n interfaces are numbered 0..n-1,
\* each number given once; the interface numbered i has the (i+1)-th interface
\* description and the printed line of ID i; every packet carries the number
\* of the interface of its frame-end event's LowerIfIndex; and no step of
\* pass 2 changes the table.
C15_OutputIndices ==
    /\ [](Pass2 =>
            /\ Cardinality(Interfaces) = NumInterfaces
            /\ { a.PcapNgIfIndex : a \in Interfaces } = 0..(NumInterfaces - 1)
            /\ Cardinality(IfaceLines) = NumInterfaces
            /\ \A a \in Interfaces :
                  /\ out[a.PcapNgIfIndex + 2].rec = "IDB"
                  /\ out[a.PcapNgIfIndex + 2].LinkType = a.Type
                  /\ \E i \in IfaceLines : /\ console[i].ID = a.PcapNgIfIndex
                                           /\ console[i].IfIndex = a.LowerIfIndex
            /\ \A k \in Records("EPB") :
                  out[k].InterfaceId = IndexOf(etl[out[k].at].LowerIfIndex))
    /\ [][Pass2 => InterfaceHashTable' = InterfaceHashTable]_vars

\* Interfaces 105, 5 and 3 (5 and 105 in one bucket) were discovered in that
\* order and numbered 2, 1 and 0, and their packets carry those numbers.
C15_Witness ==
    /\ pc = "Returned" /\ Len(etl) = 3 /\ NumInterfaces = 3
    /\ etl[1].LowerIfIndex = 105 /\ etl[2].LowerIfIndex = 5 /\ etl[3].LowerIfIndex = 3
    /\ \E k \in Records("EPB") :
          /\ out[k].at = 1 /\ out[k].InterfaceId = 2
          /\ out[k + 1].at = 2 /\ out[k + 1].InterfaceId = 1
          /\ out[k + 2].at = 3 /\ out[k + 2].InterfaceId = 0

\* The places of the table that hold an interface.
Entries ==
    UNION { { << i, k >> : k \in DOMAIN InterfaceHashTable[i] } : i \in DOMAIN InterfaceHashTable }

Registered == { a.LowerIfIndex : a \in Interfaces }

\* The LowerIfIndex values that the first n events of the file register: those
\* of a relevant event whose LowerIfIndex and MiniportIfIndex can be read.
Sighted(n) ==
    { etl[i].LowerIfIndex :
        i \in { i \in 1..n : /\ IsRelevant(etl[i])
                             /\ "LowerIfIndex" \notin etl[i].Unreadable
                             /\ "MiniportIfIndex" \notin etl[i].Unreadable } }

\* The events pass 1 has registered: all it was handed, but for the one at
\* which it ran out of memory.
SightedSoFar ==
    IF Pass2 THEN { Sighted(Len(etl)) }
    ELSE IF pc = "Exited" THEN { Sighted(pos), Sighted(pos - 1) }
    ELSE { Sighted(pos) }

\* The indices looked up: those of the file and the ones that share their
\* buckets.
Probes ==
    { etl[i].LowerIfIndex + d * IFACE_HT_SIZE : i \in 1..Len(etl), d \in 0..2 }

\* C16: no two places of the table hold the same LowerIfIndex; NumInterfaces
\* is the number of places filled and of the distinct LowerIfIndex values
\* registered so far; GetInterface finds the interface of a registered
\* LowerIfIndex and returns NULL for any other, also for one of the same
\* bucket; and no step takes an interface out of the table.
C16_Registry ==
    /\ [](/\ \A e1, e2 \in Entries :
                e1 # e2 => InterfaceHashTable[e1[1]][e1[2]].LowerIfIndex
                              # InterfaceHashTable[e2[1]][e2[2]].LowerIfIndex
          /\ Cardinality(Entries) = NumInterfaces
          /\ Cardinality(Registered) = NumInterfaces
          /\ Registered \in SightedSoFar
          /\ \A L \in Probes :
                IF L \in Registered
                THEN /\ GetInterface(L) # NULL
                     /\ Deref(L, GetInterface(L)).LowerIfIndex = L
                ELSE GetInterface(L) = NULL)
    /\ [][ /\ NumInterfaces' >= NumInterfaces
           /\ \A a \in Interfaces : \E b \in Interfaces' : b.LowerIfIndex = a.LowerIfIndex ]_vars

\* Interfaces 5 and 105 share bucket 5; 5 was seen again after 105 was put
\* at the head of the chain, and was found.
C16_Witness ==
    /\ pc = "Returned" /\ Len(etl) = 3
    /\ etl[1].LowerIfIndex = 5 /\ etl[2].LowerIfIndex = 105 /\ etl[3].LowerIfIndex = 5
    /\ NumInterfaces = 2
    /\ Len(InterfaceHashTable[Bucket(5)]) = 2
    /\ GetInterface(5) = 2 /\ GetInterface(105) = 1 /\ GetInterface(205) = NULL
    /\ Cardinality(Records("EPB")) = 3

\* C17: a step that hands an event to pass 1 leaves the fragment buffer, its
\* fill offset, the metadata slot and the frame counter as they are and
\* writes no record; a step of either pass that hands over an event of
\* another provider or of another event id changes nothing but the position
\* in the file.
C17_Pass1TouchesRegistryOnly ==
    [][ /\ (pc = "ProcessTrace1" /\ pos' = pos + 1)
              => UNCHANGED << AuxFragBuf, AuxFragBufOffset, PacketMetadata, AddMetadata,
                              NumFramesConverted, out >>
        /\ (pos' = pos + 1 /\ ~IsRelevant(etl[pos']))
              => UNCHANGED << etl, pc, Err, OutFile, diskOk, out, console, Pass2,
                              InterfaceHashTable, NumInterfaces, AuxFragBuf,
                              AuxFragBufOffset, PacketMetadata, AddMetadata,
                              NumFramesConverted >> ]_vars

\* Pass 1 was handed an event of another provider and a single-event frame,
\* which registered one interface and wrote and kept nothing; pass 2 has been
\* handed the event of the other provider.
C17_Witness ==
    /\ pc = "ProcessTrace2" /\ pos = 1 /\ Len(etl) = 2
    /\ etl[1].ProviderId # NdisCapId
    /\ IsFragment(etl[2]) /\ KW_PACKET_END \in etl[2].Keyword
    /\ NumInterfaces = 1
    /\ Records("EPB") = { } /\ AuxFragBufOffset = 0 /\ ~AddMetadata
    /\ NumFramesConverted = 0

\* The stages of a run: before pass 1, pass 1 (Discovery), WriteInterfaces
\* (Finalized), pass 2 (Conversion), Done.
Stage(at) ==
    CASE at \in { "CreateFile", "WriteSectionHeader", "OpenTrace" } -> 0
      [] at = "ProcessTrace1" -> 1
      [] at = "WriteInterfaces" -> 2
      [] at = "ProcessTrace2" -> 3
      [] at \in { "Done", "Returned" } -> 4
      [] OTHER -> 5

\* The process was ended by exit(1) or by a fault.
Aborted == pc \in { "Exited", "Crashed" }

\* C18: a run goes through its stages in order, one at a time unless it
\* fails; each pass ends at the end of the file, having been handed the events
\* one by one; every run ends, and a run that returns NO_ERROR has gone
\* through both passes and has counted as many frames as it wrote packets.
C18_Pipeline ==
    /\ [][ /\ \/ Stage(pc') \in { Stage(pc), Stage(pc) + 1 }
              \/ pc' \in { "Exited", "Crashed" }
              \/ Err' # NO_ERROR /\ pc' = "Done"
           /\ \/ pos' \in { pos, pos + 1 }
              \/ pos' = 0 /\ pc = "WriteInterfaces" /\ pos = Len(etl)
           /\ (Stage(pc') = Stage(pc) + 1 /\ pc \in { "ProcessTrace1", "ProcessTrace2" })
                 => pos = Len(etl) ]_vars
    /\ []((pc \in { "Done", "Returned" } /\ Err = NO_ERROR)
            => /\ Pass2 /\ pos = Len(etl)
               /\ NumFramesConverted = Cardinality(Records("EPB"))
               /\ console[Len(console)] = [ msg |-> "Converted frames",
                                            frames |-> Cardinality(Records("EPB")) ])
    /\ <>(Aborted \/ pc = "Returned")

\* A frame of two fragments and a frame of one were converted and the run
\* returned NO_ERROR with two frames counted.
C18_Witness ==
    /\ pc = "Returned" /\ Err = NO_ERROR /\ Len(etl) = 3
    /\ KW_PACKET_END \notin etl[1].Keyword
    /\ KW_PACKET_END \in etl[2].Keyword /\ KW_PACKET_END \in etl[3].Keyword
    /\ NumFramesConverted = 2
    /\ Cardinality(Records("EPB")) = 2
    /\ \A i \in 1..Len(out) : out[i].err = NO_ERROR

\* C19: the fill offset is between 0 and 65535, the buffer keeps its 65535
\* bytes (no fragment is copied past its end), and the length of every packet
\* written is at most 65535.
C19_WithinCapacity ==
    /\ 0 <= AuxFragBufOffset /\ AuxFragBufOffset <= MAX_PACKET_SIZE
    /\ RleLen(AuxFragBuf) = MAX_PACKET_SIZE
    /\ \A k \in Records("EPB") :
          /\ out[k].FragLength <= MAX_PACKET_SIZE
          /\ RleLen(out[k].payload) <= MAX_PACKET_SIZE

\* C20: the record a packet's comment is formatted from has its uPhyId among
\* the indices 0..10 of DOT11_PHY_TYPE_NAMES, at every packet written and at
\* the read that ended the process.
C20_PhyIdInTable ==
    /\ \A k \in Records("EPB") :
          PendingBefore(out[k].at) # 0
              => /\ etl[PendingBefore(out[k].at)].Metadata.uPhyId \in 0..(Len(DOT11_PHY_TYPE_NAMES) - 1)
                 /\ out[k].Comment.args[2] \in Range(DOT11_PHY_TYPE_NAMES)
    /\ pc = "Crashed" => PacketMetadata.uPhyId \in 0..(Len(DOT11_PHY_TYPE_NAMES) - 1)

\* The fill offset when event i of pass 2 arrives, read from the file: a
\* fragment that fits is accepted, and adds its length or, at a frame's end,
\* empties the buffer; any other event leaves the offset as it is.
RECURSIVE OffsetBefore(_)
OffsetBefore(i) ==
    IF i = 1 THEN 0
    ELSE LET ev == etl[i - 1]
             off == OffsetBefore(i - 1)
         IN IF ~IsFragment(ev) THEN off
            ELSE IF ev.FragmentSize > MAX_PACKET_SIZE - off THEN off
            ELSE IF KW_PACKET_END \in ev.Keyword THEN 0
            ELSE off + ev.FragmentSize

\* Event i of pass 2 is a fragment that is accepted into the buffer.
Accepted(i) ==
    /\ IsFragment(etl[i])
    /\ etl[i].FragmentSize <= MAX_PACKET_SIZE - OffsetBefore(i)

\* The fragments accepted since the last packet, up to event k, in the order
\* of their arrival.
RECURSIVE AcceptedSince(_)
AcceptedSince(k) ==
    IF k = 0 THEN << >>
    ELSE IF Accepted(k) /\ KW_PACKET_END \in etl[k].Keyword THEN << >>
    ELSE IF Accepted(k) THEN AcceptedSince(k - 1) \o etl[k].Fragment
    ELSE AcceptedSince(k - 1)

\* C21: every packet of pass 2 was written at an accepted frame-end event,
\* its payload the fragments accepted since the packet before it (or since the
\* pass began), on whichever interfaces, in the order of their arrival, and
\* its interface, direction and timestamp those of the frame-end event.
C21_GlobalAccumulator ==
    \A k \in Records("EPB") :
        LET j == out[k].at
            frame == RleNorm(AcceptedSince(j - 1) \o etl[j].Fragment)
        IN /\ Accepted(j) /\ KW_PACKET_END \in etl[j].Keyword
           /\ out[k].payload = frame
           /\ out[k].FragLength = RleLen(frame)
           /\ out[k].InterfaceId = IndexOf(etl[j].LowerIfIndex)
           /\ out[k].IsSend = (IF KW_SEND \in etl[j].Keyword THEN 1 ELSE 0)
           /\ out[k].TimeStampHigh = HighPart(ConvertTimeStamp(etl[j].TimeStamp))
           /\ out[k].TimeStampLow = LowPart(ConvertTimeStamp(etl[j].TimeStamp))

====
